---- MODULE Spec2Model ----
(***************************************************************************)
(* Model of scripts/template-sync: the run of main() (index.ts), the       *)
(* per-file decision of syncFile (merge-resolver.ts), the git capability   *)
(* functions it reads through (git-operations) and the conflict menu of    *)
(* resolveConflict (interactive-ui.ts).                                    *)
(*                                                                         *)
(* File contents are sequences of characters so that the trimming done by  *)
(* git() on every command output is observable.  The absent value (null in *)
(* the source) is the one-element sequence NULL.                           *)
(***************************************************************************)
EXTENDS Integers, Sequences, FiniteSets, TLC

\* ------------------------------------------------------------------ bounds
\* Largest number of records git diff reports for one run.
MaxFiles == 2
\* Largest number of non-terminal answers (diff request, invalid input)
\* a user gives to one conflict menu.
MaxAsk == 2
\* Longest include or exclude list given to a direct call of filterFiles.
MaxGlobs == 2
\* Largest number of entries of mergeStrategy.patterns given to a direct
\* call of getMergeStrategy.
MaxPatterns == 2

\* ------------------------------------------------------------- value sets
NULL == <<"<null>">>

Whitespace == {"\n", " "}

\* Blob contents found in the repositories: a text with a final newline
\* and a different text without one.
Blobs == { <<"a", "\n">>, <<"b">> }

MaybeBlobs == Blobs \cup {NULL}

\* Paths in the order git diff --name-status lists them (sorted by path).
Paths == << "config/app.json", "docs/readme.md", "old.txt" >>

\* types.ts: MergeStrategy
MergeStrategy == {"prompt", "upstream", "local", "manual"}

\* types.ts: FileStatus
FileStatus == {"added", "modified", "deleted"}

\* types.ts: ConflictResolution.action
ConflictResolution == {"upstream", "local", "manual", "skip"}

\* lastSyncedCommit: null (no sync yet), or the commit of the last sync;
\* UpstreamCommit is what git rev-parse upstream/<branch> answers.
NoCommit == "null"
BaseCommit == "c0"
UpstreamCommit == "c1"

\* Lines a user types at the conflict menu.
Answers == {"", "u", "U", "upstream", "l", "L", "local", "d", "diff",
            "s", "skip", "m", "manual", "x"}

\* ------------------------------------------------------------ pure helpers
\* String.prototype.trim on a content: leading and trailing whitespace removed.
RECURSIVE trimStart(_)
trimStart(s) ==
  IF s = <<>> THEN <<>>
  ELSE IF Head(s) \in Whitespace THEN trimStart(Tail(s)) ELSE s

RECURSIVE trimEnd(_)
trimEnd(s) ==
  IF s = <<>> THEN <<>>
  ELSE IF s[Len(s)] \in Whitespace THEN trimEnd(SubSeq(s, 1, Len(s) - 1)) ELSE s

trim(s) == trimEnd(trimStart(s))

\* git(command): the command's stdout, trimmed.
git(stdout) == trim(stdout)

\* getFileContent(commit, path): git show commit:path, null when git fails.
\* blob is the content of the path at the commit, NULL when git show fails.
getFileContent(blob) == IF blob = NULL THEN NULL ELSE git(blob)

\* getLocalFileContent(path): the working file as it is, null when absent.
getLocalFileContent(workingFile) == workingFile

\* String.prototype.toLowerCase on the answers a user types.
toLowerCase(a) ==
  CASE a = "U" -> "u"
    [] a = "L" -> "l"
    [] OTHER -> a

\* Globs of include and exclude lists, and the keys of
\* mergeStrategy.patterns: the same globs and one whose text is an integer
\* (the name of a file "404").
Globs == {"**", "docs/**", "config/**", "*.txt"}
PatternGlobs == Globs \cup {"404"}

\* micromatch.isMatch(path, glob) for these globs.
isMatchGlob(path, glob) ==
  CASE glob = "**" -> TRUE
    [] glob = "docs/**" -> path = "docs/readme.md"
    [] glob = "config/**" -> path = "config/app.json"
    [] glob = "*.txt" -> path = "old.txt"
    [] glob = "404" -> path = "404"
    [] OTHER -> FALSE

\* micromatch.isMatch(path, patterns): some pattern of the list matches.
isMatch(path, patterns) ==
  \E i \in 1..Len(patterns) : isMatchGlob(path, patterns[i])

\* filterFiles with the exclude list left out.
RECURSIVE filterFilesIncludeOnly(_, _, _)
filterFilesIncludeOnly(files, include, exclude) ==
  IF files = <<>> THEN <<>>
  ELSE LET file == Head(files)
           isIncluded == isMatch(file.path, include)
           rest == filterFilesIncludeOnly(Tail(files), include, exclude)
       IN  IF isIncluded THEN <<file>> \o rest ELSE rest

\* filterFiles returning the kept records in reverse order.
RECURSIVE filterFilesReversed(_, _, _)
filterFilesReversed(files, include, exclude) ==
  IF files = <<>> THEN <<>>
  ELSE LET file == Head(files)
           isIncluded == isMatch(file.path, include)
           isExcluded == Len(exclude) > 0 /\ isMatch(file.path, exclude)
           keep == IF ~isIncluded THEN FALSE ELSE ~isExcluded
           rest == filterFilesReversed(Tail(files), include, exclude)
       IN  IF keep THEN rest \o <<file>> ELSE rest

\* filterFiles(files, include, exclude): Array.prototype.filter keeps the
\* records the callback accepts, in input order.
RECURSIVE filterFiles(_, _, _)
filterFiles(files, include, exclude) ==
  IF files = <<>> THEN <<>>
  ELSE LET file == Head(files)
           isIncluded == isMatch(file.path, include)
           isExcluded == Len(exclude) > 0 /\ isMatch(file.path, exclude)
           keep == IF ~isIncluded THEN FALSE ELSE ~isExcluded
           rest == filterFiles(Tail(files), include, exclude)
       IN  IF keep THEN <<file>> \o rest ELSE rest

\* The array index a property key stands for, -1 for any other key.
arrayIndex(key) ==
  CASE key = "404" -> 404
    [] OTHER -> -1

\* The entries of a set whose keys are array indices, by ascending index.
RECURSIVE byIndex(_)
byIndex(entries) ==
  IF entries = {} THEN <<>>
  ELSE LET least == CHOOSE e \in entries :
                      \A f \in entries : arrayIndex(e[1]) <= arrayIndex(f[1])
       IN  <<least>> \o byIndex(entries \ {least})

\* Object.entries(patterns) of the object parsed from the declared entries
\* (distinct keys): the keys that are array indices come first in ascending
\* order, the other keys follow in declaration order.
objectEntries(declared) ==
  byIndex({ declared[i] : i \in { k \in 1..Len(declared) :
                                      arrayIndex(declared[k][1]) >= 0 } })
  \o SelectSeq(declared, LAMBDA e : arrayIndex(e[1]) < 0)

\* getMergeStrategy's loop over the entries: the first matching pattern,
\* else the default.
RECURSIVE firstMatch(_, _, _)
firstMatch(filePath, patterns, default) ==
  IF patterns = <<>> THEN default
  ELSE IF isMatchGlob(filePath, Head(patterns)[1]) THEN Head(patterns)[2]
       ELSE firstMatch(filePath, Tail(patterns), default)

\* getMergeStrategy(filePath, config)
getMergeStrategy(filePath, cfg) ==
  firstMatch(filePath, objectEntries(cfg.mergeStrategy.patterns),
             cfg.mergeStrategy.default)

\* The reads hasLocalModifications makes (merge-resolver.ts 72-80).
hasLocalModificationsReads(lastSyncedCommit) ==
  IF lastSyncedCommit = NoCommit
  THEN <<"getLocalFileContent">>
  ELSE <<"getFileContent", "getLocalFileContent">>

\* hasLocalModifications with the test of the first sync inverted.
hasLocalModificationsInverted(workingFile, lastSyncedCommit, baseBlob) ==
  IF lastSyncedCommit = NoCommit
  THEN getLocalFileContent(workingFile) = NULL
  ELSE getLocalFileContent(workingFile) # getFileContent(baseBlob)

\* hasLocalModifications(filePath, lastSyncedCommit, upstreamCommit).
\* workingFile is the working file, baseBlob the blob of the path at
\* lastSyncedCommit (NULL when git show fails).
hasLocalModifications(workingFile, lastSyncedCommit, baseBlob) ==
  IF lastSyncedCommit = NoCommit
  THEN getLocalFileContent(workingFile) # NULL
  ELSE getLocalFileContent(workingFile) # getFileContent(baseBlob)

\* ------------------------------------------------- syncFile, the decision
\* A step of syncFile: op is what it does next (nothing, a writeFile, a
\* deleteFile, or the call of resolveConflict), status and message are the
\* FileSyncResult it returns once op has been carried out.
Step(op, status, message) == [op |-> op, status |-> status, message |-> message]

\* syncDeleted asking the user under the prompt strategy even when force is set.
syncDeletedPromptsUnderForce(strategy, localContent, dryRun, force) ==
  IF dryRun THEN Step("none", "synced", "delete planned")
  ELSE IF localContent = NULL THEN Step("none", "skipped", "already deleted")
  ELSE IF strategy = "local" THEN Step("none", "skipped", "kept local")
  ELSE IF strategy = "prompt" THEN Step("prompt", "pending", "")
  ELSE Step("delete", "synced", "deleted")

\* syncFile, the branch of a deleted file (merge-resolver.ts 102-129) up to
\* its return or its call of resolveConflict.
syncDeleted(strategy, localContent, dryRun, force) ==
  IF dryRun THEN Step("none", "synced", "delete planned")
  ELSE IF localContent = NULL THEN Step("none", "skipped", "already deleted")
  ELSE IF strategy = "local" THEN Step("none", "skipped", "kept local")
  ELSE IF strategy = "prompt" /\ ~force THEN Step("prompt", "pending", "")
  ELSE Step("delete", "synced", "deleted")

\* syncAdded without the dry-run return: the file is written in a dry run.
syncAddedIgnoringDryRun(dryRun) ==
  Step("write", "synced", "added")

\* syncFile, the branch of a new file (merge-resolver.ts 142-150).
syncAdded(dryRun) ==
  IF dryRun THEN Step("none", "synced", "add planned")
  ELSE Step("write", "synced", "added")

\* syncFile, the branch of a file without local modifications
\* (merge-resolver.ts 161-169).
syncUnmodified(dryRun) ==
  IF dryRun THEN Step("none", "synced", "update planned")
  ELSE Step("write", "synced", "updated")

\* syncConflict without the branch of the local strategy.
syncConflictWithoutLocal(strategy, dryRun, force) ==
  IF strategy = "upstream" \/ force THEN
    IF dryRun THEN Step("none", "synced", "upstream planned (forced)")
    ELSE Step("write", "synced", "upstream applied")
  ELSE IF strategy = "manual" THEN Step("none", "conflict", "manual action needed")
  ELSE IF dryRun THEN Step("none", "conflict", "conflict (needs interactive resolution)")
  ELSE Step("prompt", "pending", "")

\* syncConflict without the branch of the manual strategy.
syncConflictWithoutManual(strategy, dryRun, force) ==
  IF strategy = "upstream" \/ force THEN
    IF dryRun THEN Step("none", "synced", "upstream planned (forced)")
    ELSE Step("write", "synced", "upstream applied")
  ELSE IF strategy = "local" THEN Step("none", "skipped", "kept local")
  ELSE IF dryRun THEN Step("none", "conflict", "conflict (needs interactive resolution)")
  ELSE Step("prompt", "pending", "")

\* syncConflict testing force after the local and manual strategies.
syncConflictForceLast(strategy, dryRun, force) ==
  IF strategy = "upstream" THEN
    IF dryRun THEN Step("none", "synced", "upstream planned (forced)")
    ELSE Step("write", "synced", "upstream applied")
  ELSE IF strategy = "local" THEN Step("none", "skipped", "kept local")
  ELSE IF strategy = "manual" THEN Step("none", "conflict", "manual action needed")
  ELSE IF force THEN
    IF dryRun THEN Step("none", "synced", "upstream planned (forced)")
    ELSE Step("write", "synced", "upstream applied")
  ELSE IF dryRun THEN Step("none", "conflict", "conflict (needs interactive resolution)")
  ELSE Step("prompt", "pending", "")

\* syncFile, the branch of a file with local modifications
\* (merge-resolver.ts 171-197) up to its return or its call of
\* resolveConflict.
syncConflict(strategy, dryRun, force) ==
  IF strategy = "upstream" \/ force THEN
    IF dryRun THEN Step("none", "synced", "upstream planned (forced)")
    ELSE Step("write", "synced", "upstream applied")
  ELSE IF strategy = "local" THEN Step("none", "skipped", "kept local")
  ELSE IF strategy = "manual" THEN Step("none", "conflict", "manual action needed")
  ELSE IF dryRun THEN Step("none", "conflict", "conflict (needs interactive resolution)")
  ELSE Step("prompt", "pending", "")

\* syncFile taking the new-file branch for added files only: a modified
\* file missing from the working copy differs from its baseline and is
\* handled as a conflict.
syncFileAddedOnly(status, strategy, upstreamContent, localContent, hasLocalMods, dryRun, force) ==
  IF status = "deleted" THEN syncDeleted(strategy, localContent, dryRun, force)
  ELSE IF upstreamContent = NULL THEN
    Step("none", "error", "cannot get content from upstream")
  ELSE IF status = "added" THEN syncAdded(dryRun)
  ELSE IF ~hasLocalMods /\ localContent # NULL THEN syncUnmodified(dryRun)
  ELSE syncConflict(strategy, dryRun, force)

\* syncFile without the shortcut for a file without local modifications.
syncFileWithoutUnmodified(status, strategy, upstreamContent, localContent, hasLocalMods, dryRun, force) ==
  IF status = "deleted" THEN syncDeleted(strategy, localContent, dryRun, force)
  ELSE IF upstreamContent = NULL THEN
    Step("none", "error", "cannot get content from upstream")
  ELSE IF status = "added" \/ localContent = NULL THEN syncAdded(dryRun)
  ELSE syncConflict(strategy, dryRun, force)

\* syncFile without the test of the upstream content.
syncFileWithoutNullCheck(status, strategy, upstreamContent, localContent, hasLocalMods, dryRun, force) ==
  IF status = "deleted" THEN syncDeleted(strategy, localContent, dryRun, force)
  ELSE IF status = "added" \/ localContent = NULL THEN syncAdded(dryRun)
  ELSE IF ~hasLocalMods THEN syncUnmodified(dryRun)
  ELSE syncConflict(strategy, dryRun, force)

\* syncFile up to its return or up to the call of resolveConflict.
\* upstreamContent, localContent and hasLocalMods are the values the function
\* reads (getFileContent, getLocalFileContent, hasLocalModifications).
syncFile(status, strategy, upstreamContent, localContent, hasLocalMods, dryRun, force) ==
  IF status = "deleted" THEN syncDeleted(strategy, localContent, dryRun, force)
  ELSE IF upstreamContent = NULL THEN
    Step("none", "error", "cannot get content from upstream")
  ELSE IF status = "added" \/ localContent = NULL THEN syncAdded(dryRun)
  ELSE IF ~hasLocalMods THEN syncUnmodified(dryRun)
  ELSE syncConflict(strategy, dryRun, force)

\* syncFile after resolveConflict returned for a deleted file
\* (merge-resolver.ts 122-129).
deletedResolved(action) ==
  IF action = "local" \/ action = "skip"
  THEN Step("none", "skipped", "user skipped")
  ELSE Step("delete", "synced", "deleted")

\* modifiedResolved whose skip case falls through to the upstream case.
modifiedResolvedSkipApplies(action) ==
  CASE action = "upstream" -> Step("write", "synced", "upstream applied")
    [] action = "local" -> Step("none", "skipped", "kept local")
    [] action = "skip" -> Step("write", "synced", "upstream applied")
    [] action = "manual" -> Step("none", "conflict", "manual action needed")
    [] OTHER -> Step("none", "skipped", "unknown action")

\* syncFile after resolveConflict returned for a modified file: the switch
\* on resolution.action (merge-resolver.ts 199-219).
modifiedResolved(action) ==
  CASE action = "upstream" -> Step("write", "synced", "upstream applied")
    [] action = "local" -> Step("none", "skipped", "kept local")
    [] action = "skip" -> Step("none", "skipped", "skipped")
    [] action = "manual" -> Step("none", "conflict", "manual action needed")
    [] OTHER -> Step("none", "skipped", "unknown action")

\* syncFile after resolveConflict returned action.
syncFileResolved(status, action) ==
  IF status = "deleted" THEN deletedResolved(action) ELSE modifiedResolved(action)

\* resolveConflict's label for an empty answer.
defaultLabel(defaultStrategy) ==
  IF defaultStrategy = "upstream" THEN "u"
  ELSE IF defaultStrategy = "local" THEN "l" ELSE "u"

\* askChoice resolving with skip on a request for the diff.
askChoiceDiffReturns(answer, defaultStrategy) ==
  LET lowered == toLowerCase(answer)
      choice == IF lowered = "" THEN defaultLabel(defaultStrategy) ELSE lowered
  IN  CASE choice \in {"u", "upstream"} -> "upstream"
        [] choice \in {"l", "local"} -> "local"
        [] choice \in {"d", "diff"} -> "skip"
        [] choice \in {"s", "skip"} -> "skip"
        [] OTHER -> "ask"

\* resolveConflict's switch on one answer: the action it resolves with, or
\* "ask" when it asks again.
askChoice(answer, defaultStrategy) ==
  LET lowered == toLowerCase(answer)
      choice == IF lowered = "" THEN defaultLabel(defaultStrategy) ELSE lowered
  IN  CASE choice \in {"u", "upstream"} -> "upstream"
        [] choice \in {"l", "local"} -> "local"
        [] choice \in {"d", "diff"} -> "ask"
        [] choice \in {"s", "skip"} -> "skip"
        [] OTHER -> "ask"

\* ------------------------------------------------------------------ state
VARIABLES
  pc,               \* position of main(): start, fetch, confirmStart, loop,
                    \* resolving, done (returned), exit0, exit1
  options,          \* CliOptions: dryRun, force
  configFile,       \* template-sync.jsonc: whether it exists, its keys and the
                    \* lines that hold the text "lastSyncedCommit"
  config,           \* TemplateSyncConfig loaded by loadConfig
  hasChanges,       \* git status --porcelain is not empty at the start
  backupId,         \* main's backupId
  stash,            \* the backup stash: none, pushed, popped
  allChangedFiles,  \* getChangedFiles' answer
  filesToSync,      \* filterFiles' answer
  results,          \* main's results
  cur,              \* the file syncFile is working on, or worked on last
  log               \* effects of the run in the order they happen

vars == <<pc, options, configFile, config, hasChanges, backupId, stash,
          allChangedFiles, filesToSync, results, cur, log>>

NoBackup == "null"
BackupName == "template-sync-backup"

\* mergeStrategy of the configurations: each default without patterns, and
\* the two-pattern list whose first pattern is the more specific one (its
\* second pattern matches every path, so its default is never used).
MergeStrategies ==
  { [default |-> d, patterns |-> <<>>] : d \in MergeStrategy }
  \cup { [default |-> "prompt",
          patterns |-> << <<"docs/**", "local">>, <<"**", "upstream">> >>] }

\* include / exclude lists and mergeStrategy of the configurations main
\* runs with: every mergeStrategy with the include list that keeps every
\* path, and two of them with lists that leave paths out.
Selections ==
  { [include |-> <<"**">>, exclude |-> <<>>, mergeStrategy |-> ms] :
      ms \in MergeStrategies }
  \cup
  { [include |-> <<"docs/**", "config/**">>, exclude |-> <<"docs/**">>,
     mergeStrategy |-> ms] :
      ms \in { m \in MergeStrategies : m.default \in {"prompt", "upstream"} } }

\* A key the configuration file does not have: undefined for a string, and
\* for a list of strings.
Undefined == "undefined"
UndefinedList == <<"undefined">>

\* mergeStrategy of a file without the key (an empty object behaves the same).
NoMergeStrategy == [default |-> Undefined, patterns |-> <<>>]

\* A line of template-sync.jsonc that holds the text "lastSyncedCommit":
\*   entry    "lastSyncedCommit": value
\*   spaced   "lastSyncedCommit" : value      (white space before the colon)
\*   comment  // "lastSyncedCommit": value    (the entry quoted in a comment)
\* value is null or a quoted commit.
Line(kind, value) == [kind |-> kind, value |-> value]

\* jsonc-parser's parse on these lines: the value of the last entry that is
\* not in a comment, undefined when there is none.
parseLastSyncedCommit(lines) ==
  LET entries == { i \in 1..Len(lines) : lines[i].kind # "comment" }
  IN  IF entries = {} THEN Undefined
      ELSE lines[CHOOSE i \in entries : \A j \in entries : j <= i].value

\* The smallest configuration file loadConfig accepts: upstream and include.
MinimalFile ==
  [ exists |-> TRUE,
    upstream |-> "https://example.com/template.git",
    upstreamBranch |-> Undefined,
    include |-> <<"**">>,
    exclude |-> UndefinedList,
    mergeStrategy |-> NoMergeStrategy,
    postSync |-> UndefinedList,
    lastSyncedCommit |-> <<>> ]

\* The configuration files of the runs: every selection with a post-sync
\* command and the entry lastSyncedCommit null or a commit; and single files
\* for what loadConfig rejects, for the defaults it sets and for the ways
\* the entry can be written or left out.
ConfigFiles ==
  { [MinimalFile EXCEPT !.include = sel.include, !.exclude = sel.exclude,
                        !.mergeStrategy = sel.mergeStrategy,
                        !.postSync = <<"bun install">>,
                        !.lastSyncedCommit = entry] :
      sel \in Selections,
      entry \in { <<Line("entry", "null")>>, <<Line("entry", BaseCommit)>> } }
  \cup
  { [MinimalFile EXCEPT !.exists = FALSE],
    [MinimalFile EXCEPT !.upstream = Undefined],
    [MinimalFile EXCEPT !.upstream = ""],
    [MinimalFile EXCEPT !.include = UndefinedList],
    [MinimalFile EXCEPT !.include = <<>>],
    MinimalFile,
    [MinimalFile EXCEPT !.postSync = <<>>,
                        !.mergeStrategy = [default |-> "upstream", patterns |-> <<>>],
                        !.lastSyncedCommit = <<Line("entry", BaseCommit)>>],
    [MinimalFile EXCEPT !.upstreamBranch = "main",
                        !.lastSyncedCommit = <<Line("spaced", "null")>>],
    [MinimalFile EXCEPT !.lastSyncedCommit =
                          <<Line("comment", "null"), Line("entry", "null")>>],
    [MinimalFile EXCEPT !.mergeStrategy = [default |-> "upstream", patterns |-> <<>>],
                        !.lastSyncedCommit = <<Line("spaced", BaseCommit)>>] }

\* What loadConfig ends with: an error thrown, or the configuration returned.
Thrown(message) == [throws |-> TRUE, message |-> message]
Returns(value) == [throws |-> FALSE, value |-> value]

\* loadConfig (index.ts 301-342): the file is read and parsed, a missing
\* file, a missing upstream and a missing or empty include are errors, and
\* the defaults are set. lastSyncedCommit is taken as main reads it
\* (config.lastSyncedCommit || null).
loadConfig(file) ==
  IF ~file.exists THEN Thrown("config file not found")
  ELSE IF file.upstream \in {Undefined, ""} THEN Thrown("upstream URL is not given")
  ELSE IF file.include = UndefinedList \/ Len(file.include) = 0
       THEN Thrown("include patterns are not given")
  ELSE Returns(
    [ upstream |-> file.upstream,
      upstreamBranch |-> IF file.upstreamBranch = Undefined THEN "master"
                         ELSE file.upstreamBranch,
      include |-> file.include,
      exclude |-> IF file.exclude = UndefinedList THEN <<>> ELSE file.exclude,
      mergeStrategy |->
        [ default |-> IF file.mergeStrategy.default = Undefined THEN "prompt"
                      ELSE file.mergeStrategy.default,
          patterns |-> file.mergeStrategy.patterns ],
      postSync |-> IF file.postSync = UndefinedList THEN <<>> ELSE file.postSync,
      lastSyncedCommit |->
        IF parseLastSyncedCommit(file.lastSyncedCommit) \in {Undefined, "null"}
        THEN NoCommit
        ELSE parseLastSyncedCommit(file.lastSyncedCommit) ])

\* main's config before loadConfig has returned.
NoConfig ==
  [ upstream |-> Undefined, upstreamBranch |-> Undefined,
    include |-> <<>>, exclude |-> <<>>,
    mergeStrategy |-> [default |-> "prompt", patterns |-> <<>>],
    postSync |-> <<>>, lastSyncedCommit |-> NoCommit ]

\* The record of a file before syncFile has read anything.
NoFile ==
  [ path |-> "", status |-> "none", strategy |-> "none",
    blob |-> NULL, upstreamContent |-> NULL, baseBlob |-> NULL,
    before |-> NULL, local |-> NULL, detected |-> FALSE, hasLocalMods |-> FALSE,
    prompts |-> 0, asks |-> 0, answer |-> "none", action |-> "none", io |-> "none",
    state |-> "none", result |-> [path |-> "", status |-> "none", message |-> ""] ]

Event(op, path) == [op |-> op, path |-> path]

\* A line of git diff --name-status: the status code, the second field and,
\* for a rename, the third (the new path).
DiffLine(code, path, to) == [code |-> code, path |-> path, to |-> to]

\* What the diff says of a path of the target tree or of a path it lost:
\* added, modified, deleted, or renamed from the path numbered from.
Changes ==
  { [code |-> code, from |-> 0] : code \in {"A", "M", "D"} }
  \cup { [code |-> "R100", from |-> j] : j \in 1..Len(Paths) }

\* The lines git prints for the paths in chosen: one line for each, sorted
\* by path, a rename line sorted by its new path.
RECURSIVE nameStatus(_, _, _)
nameStatus(i, chosen, changeOf) ==
  IF i > Len(Paths) THEN <<>>
  ELSE IF i \in chosen
       THEN <<IF changeOf[i].from = 0
              THEN DiffLine(changeOf[i].code, Paths[i], "")
              ELSE DiffLine(changeOf[i].code, Paths[changeOf[i].from], Paths[i])>>
            \o nameStatus(i + 1, chosen, changeOf)
       ELSE nameStatus(i + 1, chosen, changeOf)

\* The outputs of git diff --name-status base..target of at most MaxFiles
\* lines. Against the empty tree (no base commit) every line is an addition;
\* a rename takes its old path from the paths without a line of their own,
\* and no two renames take the same. (Copies are not detected by git's
\* defaults.)
diffNameStatus(baseCommit) ==
  LET possible(chosen, changeOf) ==
        \A i \in chosen :
          /\ baseCommit = NoCommit => changeOf[i].code = "A"
          /\ changeOf[i].from \notin chosen
          /\ \A j \in chosen :
               (changeOf[i].from # 0 /\ changeOf[i].from = changeOf[j].from) => i = j
  IN  { nameStatus(1, diff[1], diff[2]) :
          diff \in { d \in (SUBSET (1..Len(Paths))) \X [1..Len(Paths) -> Changes] :
                       Cardinality(d[1]) <= MaxFiles /\ possible(d[1], d[2]) } }

\* The first character of a status code.
statusCode0(code) == IF code = "R100" THEN "R" ELSE code

\* getChangedFiles' map over the lines (merge-resolver.ts 338-354): the
\* status from the first character of the code, the path from the second
\* field.
changedFiles(lines) ==
  [ k \in 1..Len(lines) |->
      [ path |-> lines[k].path,
        status |-> CASE statusCode0(lines[k].code) = "A" -> "added"
                     [] statusCode0(lines[k].code) = "D" -> "deleted"
                     [] OTHER -> "modified" ] ]

\* getChangedFiles(baseCommit, UpstreamCommit): the answers it can give.
getChangedFiles(baseCommit) ==
  { changedFiles(lines) : lines \in diffNameStatus(baseCommit) }

Init ==
  /\ pc = "start"
  /\ options \in [dryRun : BOOLEAN, force : BOOLEAN]
  /\ configFile \in ConfigFiles
  /\ config = NoConfig
  /\ hasChanges \in BOOLEAN
  /\ backupId = NoBackup
  /\ stash = "none"
  /\ allChangedFiles = <<>>
  /\ filesToSync = <<>>
  /\ results = <<>>
  /\ cur = NoFile
  /\ log = <<>>

\* createBackup (merge-resolver.ts 442-452), called with uncommitted changes
\* seen by main: its own git status may be empty by now (no backup), else
\* git stash push is run and the name returned; the stash takes the changes
\* of tracked files, and none when only untracked files are uncommitted.
createBackup ==
  { [backupId |-> NoBackup, stash |-> "none"],
    [backupId |-> BackupName, stash |-> "pushed"],
    [backupId |-> BackupName, stash |-> "none"] }

\* restoreBackup(backupId): the states it can leave the stash in. Without a
\* stash entry of that name nothing is popped. The pop succeeds on a working
\* tree the run has not touched; once the run has written or deleted a
\* working file, the pop fails (git refuses to overwrite local changes,
\* git() throws) when the stash holds a change of that file, and the stash
\* stays.
restoreBackup(entry, touched) ==
  IF entry # "pushed" THEN {entry}
  ELSE IF touched THEN {"popped", "pushed"} ELSE {"popped"}

\* main's catch block (index.ts 274-286): the backup is restored when there
\* is one, the error is rethrown (or the error of restoreBackup is thrown)
\* and the process exits with code 1.
catchError(events) ==
  /\ log' = log \o events
            \o (IF backupId # NoBackup THEN <<Event("restoreBackup", "")>> ELSE <<>>)
  /\ stash' \in (IF backupId # NoBackup
                 THEN restoreBackup(stash, \E i \in 1..Len(log) :
                                             log[i].op \in {"write", "delete"})
                 ELSE {stash})
  /\ pc' = "exit1"

\* ---------------------------------------------------------------- actions
\* main, index.ts 144-174: loadConfig, whose error ends the run with code 1,
\* the uncommitted-changes question and createBackup.
Start ==
  /\ pc = "start"
  /\ LET loaded == loadConfig(configFile)
     IN  IF loaded.throws
         THEN /\ pc' = "exit1"
              /\ UNCHANGED <<config, backupId, stash, log>>
         ELSE /\ config' = loaded.value
              /\ IF hasChanges /\ ~options.dryRun
                 THEN \E shouldContinue \in BOOLEAN :
                        IF shouldContinue
                        THEN \E backup \in createBackup :
                               /\ backupId' = backup.backupId
                               /\ stash' = backup.stash
                               /\ log' = log \o <<Event("confirmPrompt", "")>>
                                         \o (IF backup.backupId # NoBackup
                                             THEN <<Event("createBackup", "")>>
                                             ELSE <<>>)
                               /\ pc' = "fetch"
                        ELSE /\ log' = log \o <<Event("confirmPrompt", "")>>
                             /\ pc' = "exit0"
                             /\ UNCHANGED <<backupId, stash>>
                 ELSE /\ pc' = "fetch"
                      /\ UNCHANGED <<backupId, stash, log>>
  /\ UNCHANGED <<options, configFile, hasChanges, allChangedFiles,
                 filesToSync, results, cur>>

\* main, index.ts 176-220: ensureUpstreamRemote, fetchUpstream,
\* getUpstreamCommit, getChangedFiles and filterFiles; a git command that
\* fails throws into the catch block.
FetchAndFilter ==
  /\ pc = "fetch"
  /\ \/ /\ catchError(<<>>)
        /\ UNCHANGED <<allChangedFiles, filesToSync>>
     \/ \E files \in getChangedFiles(config.lastSyncedCommit) :
          LET kept == filterFiles(files, config.include, config.exclude)
          IN  /\ allChangedFiles' = files
              /\ filesToSync' = IF Len(files) = 0 THEN <<>> ELSE kept
              /\ pc' = IF Len(files) = 0 \/ Len(kept) = 0 THEN "done"
                       ELSE IF ~options.force /\ ~options.dryRun THEN "confirmStart"
                       ELSE "loop"
              /\ UNCHANGED <<stash, log>>
  /\ UNCHANGED <<options, configFile, config, hasChanges, backupId, results, cur>>

\* main, index.ts 222-235: confirmSyncStart and the restore on refusal.
ConfirmSyncStart ==
  /\ pc = "confirmStart"
  /\ \E shouldStart \in BOOLEAN :
       IF shouldStart
       THEN /\ log' = log \o <<Event("confirmSyncStart", "")>>
            /\ pc' = "loop"
            /\ UNCHANGED stash
       ELSE /\ log' = log \o <<Event("confirmSyncStart", "")>>
                      \o (IF backupId # NoBackup
                          THEN <<Event("restoreBackup", "")>> ELSE <<>>)
            /\ stash' \in (IF backupId # NoBackup THEN restoreBackup(stash, FALSE)
                           ELSE {stash})
            /\ pc' = "done"
  /\ UNCHANGED <<options, configFile, config, hasChanges, backupId,
                 allChangedFiles, filesToSync, results, cur>>

\* fileReturns pushing the result twice.
fileReturnsPushingTwice(c, step, newLocal, events) ==
  LET result == [path |-> c.path, status |-> step.status, message |-> step.message]
  IN  /\ cur' = [c EXCEPT !.local = newLocal, !.io = step.op,
                          !.state = "returned", !.result = result]
      /\ results' = Append(Append(results, result), result)
      /\ log' = log \o events
      /\ pc' = "loop"
      /\ UNCHANGED stash

\* syncFile returns step.status for file c, whose working file is now
\* newLocal; main pushes the result (index.ts 241-242).
fileReturns(c, step, newLocal, events) ==
  LET result == [path |-> c.path, status |-> step.status, message |-> step.message]
  IN  /\ cur' = [c EXCEPT !.local = newLocal, !.io = step.op,
                          !.state = "returned", !.result = result]
      /\ results' = Append(results, result)
      /\ log' = log \o events
      /\ pc' = "loop"
      /\ UNCHANGED stash

\* writeFile or deleteFile throws: syncFile rejects, main's loop is left for
\* the catch block and no result is pushed.
fileThrows(c, step) ==
  /\ cur' = [c EXCEPT !.io = step.op, !.state = "threw"]
  /\ catchError(<<Event("throw", c.path)>>)
  /\ UNCHANGED results

\* Carrying out a step of syncFile on file c.
carryOut(c, step) ==
  CASE step.op = "none" ->
         fileReturns(c, step, c.local, <<>>)
    [] step.op = "write" ->
         \/ fileReturns(c, step, c.upstreamContent, <<Event("write", c.path)>>)
         \/ fileThrows(c, step)
    [] step.op = "delete" ->
         \/ fileReturns(c, step, NULL, <<Event("delete", c.path)>>)
         \/ fileThrows(c, step)
    [] step.op = "prompt" ->
         /\ cur' = [c EXCEPT !.prompts = c.prompts + 1, !.state = "resolving"]
         /\ log' = log \o <<Event("resolveConflict", c.path)>>
         /\ pc' = "resolving"
         /\ UNCHANGED <<results, stash>>

\* One turn of main's loop (index.ts 240-243) with syncFile up to its return
\* or its call of resolveConflict (merge-resolver.ts 88-197).  blob is the
\* path's blob at the upstream commit, workingFile the working file and
\* baseBlob the path's blob at lastSyncedCommit; syncFile reads blob only
\* for a file that is not deleted and baseBlob only when it reaches
\* hasLocalModifications with a lastSyncedCommit (the blob of a modified
\* file can be the base blob: git reports a change of mode as M).
SyncFile ==
  /\ pc = "loop"
  /\ Len(results) < Len(filesToSync)
  /\ LET file == filesToSync[Len(results) + 1]
         strategy == getMergeStrategy(file.path, config)
     IN  \E blob \in (IF file.status = "deleted" THEN {NULL} ELSE MaybeBlobs),
            workingFile \in MaybeBlobs :
           LET upstreamContent == getFileContent(blob)
               localContent == getLocalFileContent(workingFile)
               detects == /\ file.status = "modified"
                          /\ upstreamContent # NULL
                          /\ localContent # NULL
           IN  \E baseBlob \in (IF detects /\ config.lastSyncedCommit # NoCommit
                                THEN Blobs ELSE {NULL}) :
                 LET hasLocalMods ==
                       IF detects
                       THEN hasLocalModifications(workingFile,
                                                  config.lastSyncedCommit, baseBlob)
                       ELSE FALSE
                     c == [NoFile EXCEPT !.path = file.path,
                                         !.status = file.status,
                                         !.strategy = strategy,
                                         !.blob = blob,
                                         !.upstreamContent = upstreamContent,
                                         !.baseBlob = baseBlob,
                                         !.before = workingFile,
                                         !.local = workingFile,
                                         !.detected = detects,
                                         !.hasLocalMods = hasLocalMods]
                 IN  carryOut(c, syncFile(file.status, strategy, upstreamContent,
                                          localContent, hasLocalMods,
                                          options.dryRun, options.force))
  /\ UNCHANGED <<options, configFile, config, hasChanges, backupId,
                 allChangedFiles, filesToSync>>

\* resolveConflict's menu (interactive-ui.ts 153-185): one answer of the
\* user; a terminal choice resolves the promise and syncFile goes on
\* (merge-resolver.ts 120-129, 197-219), anything else asks again.
AskChoice ==
  /\ pc = "resolving"
  /\ \E answer \in Answers :
       LET action == askChoice(answer, cur.strategy)
       IN  IF action = "ask"
           THEN /\ cur.asks < MaxAsk
                /\ cur' = [cur EXCEPT !.asks = cur.asks + 1]
                /\ UNCHANGED <<pc, results, log, stash>>
           ELSE carryOut([cur EXCEPT !.action = action],
                         syncFileResolved(cur.status, action))
  /\ UNCHANGED <<options, configFile, config, hasChanges, backupId,
                 allChangedFiles, filesToSync>>

\* The Interactive Resolver as the contract syncFile is written against
\* (types.ts ConflictResolution): it returns any of the four actions.
ResolveConflictReturns ==
  /\ pc = "resolving"
  /\ \E action \in ConflictResolution :
       carryOut([cur EXCEPT !.action = action],
                syncFileResolved(cur.status, action))
  /\ UNCHANGED <<options, configFile, config, hasChanges, backupId,
                 allChangedFiles, filesToSync>>

\* Number of results with the given status (results.filter(...).length).
RECURSIVE countStatus(_, _)
countStatus(rs, status) ==
  IF rs = <<>> THEN 0
  ELSE (IF Head(rs).status = status THEN 1 ELSE 0) + countStatus(Tail(rs), status)

\* The lines the regular expression /"lastSyncedCommit":\s*(null|"[^"]*")/
\* matches: the text of an entry with the colon next to the key, in a
\* comment or not.
matchesEntry(line) == line.kind \in {"entry", "comment"}

\* updateLastSyncedCommit (index.ts 347-366): String.prototype.replace puts
\* the commit in the first match of the regular expression; a file without
\* a match is rewritten as it is.
updateLastSyncedCommit(lines, commit) ==
  LET matches == { i \in 1..Len(lines) : matchesEntry(lines[i]) }
      first == CHOOSE i \in matches : \A j \in matches : i <= j
  IN  IF matches = {} THEN lines
      ELSE [lines EXCEPT ![first] = Line(lines[first].kind, commit)]

\* writesCheckpoint without the test of the synced count.
writesCheckpointWithoutCount(dryRun, synced) == ~dryRun

\* main's test before updateLastSyncedCommit (index.ts 256).
writesCheckpoint(dryRun, synced) == ~dryRun /\ synced > 0

\* runPostSyncCommands(commands, options) runs the commands (index.ts
\* 101-137): it returns at once without commands, and lists them without
\* running them in a dry run. A command that fails is reported and the next
\* one is run.
runPostSyncCommands(commands, dryRun) ==
  IF Len(commands) = 0 THEN FALSE
  ELSE IF dryRun THEN FALSE
  ELSE TRUE

\* main, index.ts 245-273: the counts, the checkpoint and the post-sync
\* commands, after the loop. updateLastSyncedCommit reads and writes the
\* configuration file and throws when it cannot: the catch block ends the
\* run.
Finish ==
  /\ pc = "loop"
  /\ Len(results) = Len(filesToSync)
  /\ LET synced == countStatus(results, "synced")
         checkpoint == writesCheckpoint(options.dryRun, synced)
         postSync == synced > 0 /\ runPostSyncCommands(config.postSync, options.dryRun)
     IN  \/ /\ configFile' =
                 IF checkpoint
                 THEN [configFile EXCEPT !.lastSyncedCommit =
                         updateLastSyncedCommit(@, UpstreamCommit)]
                 ELSE configFile
            /\ log' = log
                      \o (IF checkpoint
                          THEN <<Event("updateLastSyncedCommit", "")>> ELSE <<>>)
                      \o (IF postSync THEN <<Event("postSync", "")>> ELSE <<>>)
            /\ pc' = "done"
            /\ UNCHANGED stash
         \/ /\ checkpoint
            /\ catchError(<<Event("throw", "")>>)
            /\ UNCHANGED configFile
  /\ UNCHANGED <<options, config, hasChanges, backupId,
                 allChangedFiles, filesToSync, results, cur>>

Next ==
  \/ Start
  \/ FetchAndFilter
  \/ ConfirmSyncStart
  \/ SyncFile
  \/ AskChoice
  \/ Finish

Spec == Init /\ [][Next]_vars

\* The same run with the Interactive Resolver taken as a collaborator.
NextContract ==
  \/ Start
  \/ FetchAndFilter
  \/ ConfirmSyncStart
  \/ SyncFile
  \/ ResolveConflictReturns
  \/ Finish

SpecContract == Init /\ [][NextContract]_vars

\* ------------------------------------------- the functions called directly
\* The exported functions of merge-resolver.ts called on their own, with
\* arguments main does not give them: any include and exclude lists (the
\* empty include list too, with which main has no configuration), any
\* patterns object,
\* and a first sync for a path with any local file (main's change set holds
\* only additions then). pc names the function about to be called and then
\* the function that returned; the arguments are in config, allChangedFiles and cur, the
\* return value in filesToSync, cur.strategy or cur.hasLocalMods.

\* The sequences of at most n elements of a set.
RECURSIVE ListsOf(_, _)
ListsOf(elements, n) ==
  IF n = 0 THEN { <<>> }
  ELSE LET shorter == ListsOf(elements, n - 1)
       IN  shorter \cup { Append(l, e) : l \in shorter, e \in elements }

\* The keys of a parsed object are distinct.
DistinctKeys(entries) ==
  \A i, j \in 1..Len(entries) : entries[i][1] = entries[j][1] => i = j

\* The paths getMergeStrategy is asked about.
StrategyPaths == { Paths[i] : i \in 1..Len(Paths) } \cup {"404"}

\* The TemplateSyncConfig a function is called with.
Config(include, exclude, mergeStrategy, lastSyncedCommit) ==
  [NoConfig EXCEPT !.upstream = MinimalFile.upstream,
                   !.upstreamBranch = "master",
                   !.include = include,
                   !.exclude = exclude,
                   !.mergeStrategy = mergeStrategy,
                   !.lastSyncedCommit = lastSyncedCommit]

InitCalls ==
  /\ options \in [dryRun : BOOLEAN, force : BOOLEAN]
  /\ configFile = MinimalFile
  /\ hasChanges = FALSE
  /\ backupId = NoBackup
  /\ stash = "none"
  /\ filesToSync = <<>>
  /\ results = <<>>
  /\ log = <<>>
  /\ \/ /\ pc = "filterFiles"
        /\ options = [dryRun |-> FALSE, force |-> FALSE]
        /\ allChangedFiles \in getChangedFiles(BaseCommit)
        /\ \E include \in ListsOf(Globs, MaxGlobs), exclude \in ListsOf(Globs, MaxGlobs) :
             config = Config(include, exclude,
                             [default |-> "prompt", patterns |-> <<>>], BaseCommit)
        /\ cur = NoFile
     \/ /\ pc = "getMergeStrategy"
        /\ options = [dryRun |-> FALSE, force |-> FALSE]
        /\ allChangedFiles = <<>>
        /\ \E default \in MergeStrategy,
              patterns \in { l \in ListsOf(PatternGlobs \X MergeStrategy, MaxPatterns) :
                               DistinctKeys(l) } :
             config = Config(<<"**">>, <<>>,
                             [default |-> default, patterns |-> patterns], BaseCommit)
        /\ \E path \in StrategyPaths : cur = [NoFile EXCEPT !.path = path]
     \/ /\ pc = "hasLocalModifications"
        /\ options = [dryRun |-> FALSE, force |-> FALSE]
        /\ allChangedFiles = <<>>
        /\ \E lastSyncedCommit \in {NoCommit, BaseCommit} :
             config = Config(<<"**">>, <<>>,
                             [default |-> "prompt", patterns |-> <<>>], lastSyncedCommit)
        /\ \E path \in StrategyPaths, workingFile \in MaybeBlobs, baseBlob \in MaybeBlobs :
             cur = [NoFile EXCEPT !.path = path, !.before = workingFile,
                                  !.local = workingFile, !.baseBlob = baseBlob]
     \/ /\ pc = "syncFile"
        /\ options.dryRun
        /\ allChangedFiles = <<>>
        /\ \E default \in MergeStrategy, lastSyncedCommit \in {NoCommit, BaseCommit} :
             config = Config(<<"**">>, <<>>,
                             [default |-> default, patterns |-> <<>>], lastSyncedCommit)
        /\ \E status \in FileStatus, workingFile \in MaybeBlobs :
             \E blob \in (IF status = "deleted" THEN {NULL} ELSE MaybeBlobs),
                baseBlob \in (IF config.lastSyncedCommit = BaseCommit
                              THEN MaybeBlobs ELSE {NULL}) :
               cur = [NoFile EXCEPT !.path = Paths[1], !.status = status,
                                    !.blob = blob, !.before = workingFile,
                                    !.local = workingFile, !.baseBlob = baseBlob]

\* filterFiles(allChangedFiles, config.include, config.exclude)
CallFilterFiles ==
  /\ pc = "filterFiles"
  /\ filesToSync' = filterFiles(allChangedFiles, config.include, config.exclude)
  /\ pc' = "returned filterFiles"
  /\ UNCHANGED <<options, configFile, config, hasChanges, backupId, stash,
                 allChangedFiles, results, cur, log>>

\* getMergeStrategy(cur.path, config)
CallGetMergeStrategy ==
  /\ pc = "getMergeStrategy"
  /\ cur' = [cur EXCEPT !.strategy = getMergeStrategy(cur.path, config),
                        !.state = "returned"]
  /\ pc' = "returned getMergeStrategy"
  /\ UNCHANGED <<options, configFile, config, hasChanges, backupId, stash,
                 allChangedFiles, filesToSync, results, log>>

\* hasLocalModifications(cur.path, config.lastSyncedCommit, UpstreamCommit);
\* the log takes the reads it makes.
CallHasLocalModifications ==
  /\ pc = "hasLocalModifications"
  /\ cur' = [cur EXCEPT
               !.hasLocalMods = hasLocalModifications(cur.local,
                                  config.lastSyncedCommit, cur.baseBlob),
               !.detected = TRUE,
               !.state = "returned"]
  /\ log' = [i \in 1..Len(hasLocalModificationsReads(config.lastSyncedCommit)) |->
               Event(hasLocalModificationsReads(config.lastSyncedCommit)[i], cur.path)]
  /\ pc' = "returned hasLocalModifications"
  /\ UNCHANGED <<options, configFile, config, hasChanges, backupId, stash,
                 allChangedFiles, filesToSync, results>>

\* syncFile(file, UpstreamCommit, config, options) for the file in cur, up
\* to its return or its call of resolveConflict, writeFile and deleteFile
\* succeeding; main's results takes the record returned. The call is made in
\* a dry run first and then, on the same file, with dryRun = false.
CallSyncFile ==
  /\ pc = "syncFile"
  /\ LET strategy == getMergeStrategy(cur.path, config)
         upstreamContent == getFileContent(cur.blob)
         localContent == getLocalFileContent(cur.local)
         detects == /\ cur.status = "modified"
                    /\ upstreamContent # NULL
                    /\ localContent # NULL
         hasLocalMods == IF detects
                         THEN hasLocalModifications(cur.local,
                                config.lastSyncedCommit, cur.baseBlob)
                         ELSE FALSE
         step == syncFile(cur.status, strategy, upstreamContent, localContent,
                          hasLocalMods, options.dryRun, options.force)
         result == [path |-> cur.path, status |-> step.status,
                    message |-> step.message]
     IN  /\ cur' = [cur EXCEPT
                      !.strategy = strategy,
                      !.upstreamContent = upstreamContent,
                      !.detected = detects,
                      !.hasLocalMods = hasLocalMods,
                      !.io = step.op,
                      !.prompts = IF step.op = "prompt" THEN 1 ELSE 0,
                      !.local = CASE step.op = "write" -> upstreamContent
                                  [] step.op = "delete" -> NULL
                                  [] OTHER -> cur.local,
                      !.state = IF step.op = "prompt" THEN "resolving" ELSE "returned",
                      !.result = IF step.op = "prompt" THEN cur.result ELSE result]
         /\ results' = IF step.op = "prompt" THEN results ELSE Append(results, result)
         /\ log' = log \o (CASE step.op = "write" -> <<Event("write", cur.path)>>
                             [] step.op = "delete" -> <<Event("delete", cur.path)>>
                             [] step.op = "prompt" -> <<Event("resolveConflict", cur.path)>>
                             [] OTHER -> <<>>)
         /\ pc' = IF options.dryRun THEN "syncFile"
                  ELSE IF step.op = "prompt" THEN "resolveConflict"
                  ELSE "returned syncFile"
  /\ options' = [options EXCEPT !.dryRun = FALSE]
  /\ UNCHANGED <<configFile, config, hasChanges, backupId, stash,
                 allChangedFiles, filesToSync>>

\* resolveConflict called by syncFile (merge-resolver.ts 118, 197): one
\* answer at its menu (interactive-ui.ts 153-185), kept in cur.answer. A
\* terminal choice resolves the promise and syncFile goes on to its return
\* (merge-resolver.ts 120-129, 199-219); anything else asks again.
CallResolveConflict ==
  /\ pc = "resolveConflict"
  /\ \E answer \in Answers :
       LET action == askChoice(answer, cur.strategy)
           step == syncFileResolved(cur.status, action)
           result == [path |-> cur.path, status |-> step.status,
                      message |-> step.message]
       IN  IF action = "ask"
           THEN /\ cur.asks < MaxAsk
                /\ cur' = [cur EXCEPT !.asks = cur.asks + 1, !.answer = answer]
                /\ UNCHANGED <<pc, results, log>>
           ELSE /\ cur' = [cur EXCEPT
                             !.answer = answer,
                             !.action = action,
                             !.io = step.op,
                             !.local = CASE step.op = "write" -> cur.upstreamContent
                                         [] step.op = "delete" -> NULL
                                         [] OTHER -> cur.local,
                             !.state = "returned",
                             !.result = result]
                /\ results' = Append(results, result)
                /\ log' = log \o (CASE step.op = "write" -> <<Event("write", cur.path)>>
                                    [] step.op = "delete" -> <<Event("delete", cur.path)>>
                                    [] OTHER -> <<>>)
                /\ pc' = "resolved syncFile"
  /\ UNCHANGED <<options, configFile, config, hasChanges, backupId, stash,
                 allChangedFiles, filesToSync>>

NextCalls ==
  \/ CallFilterFiles
  \/ CallGetMergeStrategy
  \/ CallHasLocalModifications
  \/ CallSyncFile
  \/ CallResolveConflict

SpecCalls == InitCalls /\ [][NextCalls]_vars

\* The user at the conflict menu enters a terminal choice.
TerminalChoice == CallResolveConflict /\ pc' # "resolveConflict"

\* The calls with a user who does not go on for ever asking for the diff or
\* typing unrecognized lines: a terminal choice is entered at some turn.
SpecTerminal == InitCalls /\ [][NextCalls]_vars /\ WF_vars(TerminalChoice)

TypeOK ==
  /\ pc \in {"start", "fetch", "confirmStart", "loop", "resolving", "done", "exit0", "exit1"}
  /\ Len(results) <= Len(filesToSync)

\* ----------------------------------------------------------------- claims
\* syncFile has returned for the file in cur and main has pushed its result.
Returned == cur.state = "returned"

\* Events of the log with one of the given operations.
EventsOf(ops) == { i \in 1..Len(log) : log[i].op \in ops }

\* C1: in a dry run syncFile writes and deletes no working file and never
\* calls the Interactive Resolver, whatever the status, strategy, local file
\* and force; the run writes no lastSyncedCommit checkpoint, makes no backup
\* stash and runs no post-sync command, so the working tree is the same
\* before and after.
C1_DryRunMutatesNothing ==
  options.dryRun =>
    /\ EventsOf({"write", "delete", "resolveConflict", "updateLastSyncedCommit",
                 "createBackup", "restoreBackup", "postSync"}) = {}
    /\ pc # "resolving"
    /\ stash = "none"
    /\ cur.state # "none" =>
         /\ cur.state = "returned"
         /\ cur.local = cur.before
         /\ cur.io = "none"
         /\ cur.prompts = 0

\* A dry run that ended after reporting a file as synced and a later file,
\* modified locally under the prompt strategy, as a conflict.
C1_Witness ==
  /\ options.dryRun
  /\ pc = "done"
  /\ Len(results) = 2
  /\ results[1].status = "synced"
  /\ cur.status = "modified" /\ cur.strategy = "prompt" /\ cur.hasLocalMods
  /\ cur.result.status = "conflict"

\* syncFile has started on the file in cur.
Started == cur.state # "none"

\* The file in cur has status Modified and the Modification Detector was
\* consulted for it (its upstream content was retrieved and it exists
\* locally) and answered hasLocalMods.
ModifiedDetected(hasLocalMods) ==
  /\ Started
  /\ cur.status = "modified"
  /\ cur.detected
  /\ cur.hasLocalMods = hasLocalMods

\* C2: for a Modified file that exists locally and that the detector reports
\* as locally modified, under strategy local without force, syncFile returns
\* skipped, leaves the working file as it was and does not call the
\* Interactive Resolver.
C2_TakeLocalSkips ==
  (ModifiedDetected(TRUE) /\ cur.strategy = "local" /\ ~options.force) =>
    /\ Returned
    /\ cur.result.status = "skipped"
    /\ cur.local = cur.before
    /\ cur.io = "none"
    /\ cur.prompts = 0

\* A real run kept a locally modified file under strategy local.
C2_Witness ==
  /\ ModifiedDetected(TRUE) /\ cur.strategy = "local" /\ ~options.force
  /\ ~options.dryRun
  /\ cur.before # NULL
  /\ Returned /\ cur.result.status = "skipped"

\* C3: for a Modified file that the detector reports as locally modified,
\* under strategy manual without force, syncFile returns conflict, neither
\* writes nor deletes the working file and does not call the Interactive
\* Resolver.
C3_ManualConflicts ==
  (ModifiedDetected(TRUE) /\ cur.strategy = "manual" /\ ~options.force) =>
    /\ Returned
    /\ cur.result.status = "conflict"
    /\ cur.local = cur.before
    /\ cur.io = "none"
    /\ cur.prompts = 0

\* A real run reported a locally modified file under strategy manual as a
\* conflict.
C3_Witness ==
  /\ ModifiedDetected(TRUE) /\ cur.strategy = "manual" /\ ~options.force
  /\ ~options.dryRun
  /\ Returned /\ cur.result.status = "conflict"

\* C4: for a Modified file that the detector reports as locally modified, a
\* real run with force writes the upstream content syncFile read and returns
\* synced under every strategy, without calling the Interactive Resolver.
C4_ForceOverwrites ==
  (ModifiedDetected(TRUE) /\ options.force /\ ~options.dryRun) =>
    /\ cur.state # "resolving"
    /\ cur.prompts = 0
    /\ cur.io = "write"
    /\ Returned =>
         /\ cur.result.status = "synced"
         /\ cur.local = cur.upstreamContent

\* A forced run overwrote a locally modified file whose strategy is local.
C4_Witness ==
  /\ ModifiedDetected(TRUE) /\ options.force /\ ~options.dryRun
  /\ cur.strategy = "local"
  /\ Returned /\ cur.result.status = "synced"
  /\ cur.local = cur.upstreamContent /\ cur.local # cur.before

\* The file in cur is the one C5 speaks of.
C5_Case ==
  /\ ModifiedDetected(TRUE)
  /\ cur.strategy = "prompt" /\ ~options.force /\ ~options.dryRun

\* C5: for a Modified file that the detector reports as locally modified,
\* under strategy prompt in a real run without force, syncFile calls the
\* Interactive Resolver exactly once and maps its answer: upstream to a write
\* of the upstream content and synced, local and skip to skipped with the
\* working file unchanged, manual to conflict with the working file unchanged.
C5_PromptMapsAnswer ==
  C5_Case =>
    /\ cur.prompts = 1
    /\ Cardinality({ i \in EventsOf({"resolveConflict"}) : log[i].path = cur.path }) = 1
    /\ cur.state = "threw" => cur.action = "upstream"
    /\ Returned =>
         /\ cur.action \in ConflictResolution
         /\ cur.action = "upstream" =>
              /\ cur.result.status = "synced"
              /\ cur.io = "write"
              /\ cur.local = cur.upstreamContent
         /\ cur.action \in {"local", "skip"} =>
              /\ cur.result.status = "skipped"
              /\ cur.io = "none"
              /\ cur.local = cur.before
         /\ cur.action = "manual" =>
              /\ cur.result.status = "conflict"
              /\ cur.io = "none"
              /\ cur.local = cur.before

\* The resolver answered manual for a prompted file, which ended as a conflict.
C5_Witness ==
  /\ C5_Case
  /\ Returned
  /\ cur.action = "manual"
  /\ cur.result.status = "conflict"
  /\ cur.local = cur.before

\* C6: a Deleted file under strategy local never ends synced and is never
\* deleted, whatever force and dryRun: skipped when the file is present,
\* skipped with another reason when it is absent.
C6_DeletedTakeLocalNeverSynced ==
  (Started /\ cur.status = "deleted" /\ cur.strategy = "local") =>
    /\ Returned
    /\ cur.result.status = "skipped"
    /\ cur.result.message = (IF cur.before = NULL THEN "already deleted" ELSE "kept local")
    /\ cur.io = "none"
    /\ cur.local = cur.before

\* The file in cur is a Deleted file of a real run.
C7_Case == Started /\ cur.status = "deleted" /\ ~options.dryRun

\* C7: in a real run a Deleted file follows the table in priority order: an
\* absent local file is skipped without delete or prompt; otherwise strategy
\* prompt without force calls the Interactive Resolver, whose answer local
\* or skip gives skipped with the file kept; in every other case whose
\* strategy is not local the file is deleted and the outcome is synced; with
\* force the resolver is never called.
C7_DeletedTable ==
  C7_Case =>
    /\ cur.before = NULL =>
         /\ Returned
         /\ cur.result.status = "skipped"
         /\ cur.io = "none"
         /\ cur.prompts = 0
         /\ cur.local = NULL
    /\ (cur.before # NULL /\ cur.strategy = "prompt" /\ ~options.force) =>
         /\ cur.prompts = 1
         /\ (Returned /\ cur.action \in {"local", "skip"}) =>
              /\ cur.result.status = "skipped"
              /\ cur.io = "none"
              /\ cur.local = cur.before
    /\ ( /\ cur.before # NULL
         /\ cur.strategy # "local"
         /\ \/ options.force
            \/ cur.strategy \in {"upstream", "manual"}
            \/ cur.action \in ConflictResolution \ {"local", "skip"} ) =>
         /\ cur.io = "delete"
         /\ Returned =>
              /\ cur.result.status = "synced"
              /\ cur.local = NULL
    /\ options.force => (cur.prompts = 0 /\ cur.state # "resolving")

\* A forced run removed a present file whose strategy is prompt.
C7_Witness ==
  /\ C7_Case
  /\ options.force /\ cur.strategy = "prompt" /\ cur.before # NULL
  /\ Returned /\ cur.result.status = "synced" /\ cur.local = NULL
  /\ cur.prompts = 0

\* C8: for an Added file whose upstream content is retrievable, a real
\* syncFile returns synced and the working file then equals the upstream blob
\* byte for byte, under every strategy and force.
C8_AddedEqualsBlob ==
  (Returned /\ cur.status = "added" /\ cur.blob # NULL /\ ~options.dryRun) =>
    /\ cur.result.status = "synced"
    /\ cur.local = cur.blob

\* C9: for a Modified file that the detector reports as not locally
\* modified, a real syncFile writes the upstream content it read and returns
\* synced under every strategy and force, without calling the Interactive
\* Resolver.
C9_UnmodifiedUpdated ==
  (ModifiedDetected(FALSE) /\ ~options.dryRun) =>
    /\ cur.state # "resolving"
    /\ cur.prompts = 0
    /\ cur.io = "write"
    /\ Returned =>
         /\ cur.result.status = "synced"
         /\ cur.local = cur.upstreamContent

\* A run without force updated an unmodified file whose strategy is manual.
C9_Witness ==
  /\ ModifiedDetected(FALSE) /\ ~options.dryRun
  /\ cur.strategy = "manual" /\ ~options.force
  /\ Returned /\ cur.result.status = "synced"
  /\ cur.local = cur.upstreamContent /\ cur.local # cur.before

\* The lastSyncedCommit a run would now load from the configuration file.
Persisted == parseLastSyncedCommit(configFile.lastSyncedCommit)

\* C10: updateLastSyncedCommit is called at most once per run, only after
\* every file of the filtered change set has its outcome, and a run that
\* came to the end of main's loop calls it if and only if it is not a dry run
\* and at least one outcome is synced.
C10_CheckpointOnce ==
  LET writes == Cardinality(EventsOf({"updateLastSyncedCommit"}))
      synced == countStatus(results, "synced")
  IN  /\ writes <= 1
      /\ writes = 1 =>
           /\ pc = "done"
           /\ Len(filesToSync) > 0 /\ Len(results) = Len(filesToSync)
           /\ ~options.dryRun
           /\ synced > 0
      /\ (pc = "done" /\ ~options.dryRun /\ synced > 0) => writes = 1
      /\ pc \in {"exit0", "exit1"} => writes = 0

\* A run wrote the checkpoint after one file was synced and another was not.
C10_Witness ==
  /\ pc = "done"
  /\ Cardinality(EventsOf({"updateLastSyncedCommit"})) = 1
  /\ Len(results) = 2
  /\ countStatus(results, "synced") = 1
  /\ Persisted = UpstreamCommit

\* C11: whenever a run has called updateLastSyncedCommit, the lastSyncedCommit
\* entry of the configuration file is the upstream commit the run computed
\* its change set against.
C11_CheckpointIsTarget ==
  EventsOf({"updateLastSyncedCommit"}) # {} => Persisted = UpstreamCommit

\* Events of the log that touch the given path.
EventsOn(path) == { i \in 1..Len(log) : log[i].path = path }

\* C12: when the upstream content of an Added or Modified path cannot be
\* retrieved, syncFile returns error for it without write, delete or prompt,
\* and the run goes on: the error never takes main to its catch block, and
\* main ends only after every file has its outcome.
C12_UnavailableIsError ==
  /\ (Started /\ cur.status \in {"added", "modified"} /\ cur.blob = NULL) =>
       /\ Returned
       /\ cur.result.status = "error"
       /\ cur.io = "none"
       /\ cur.prompts = 0
       /\ cur.local = cur.before
       /\ \/ pc \in {"loop", "done"}
          \/ pc = "exit1" /\ EventsOf({"throw"}) # {}
  /\ \A i \in 1..Len(results) :
       results[i].status = "error" =>
         /\ EventsOn(results[i].path) = {}
         /\ pc = "exit1" => EventsOf({"throw"}) # {}
         /\ pc = "done" => Len(results) = Len(filesToSync)

\* A run got an error for its first file and synced its second file.
C12_Witness ==
  /\ Len(results) = 2
  /\ results[1].status = "error"
  /\ results[2].status = "synced"
  /\ Returned /\ cur.io = "write"
  /\ pc = "done"

\* C13: a writeFile or deleteFile that throws for one file does not abort
\* the run: the file has its own outcome record and main does not exit.
C13_FailureIsolated ==
  \A i \in EventsOf({"throw"}) :
    /\ \E j \in 1..Len(results) : results[j].path = log[i].path
    /\ pc # "exit1"

\* main's loop was entered and ran to its end.
LoopCompleted == pc = "done" /\ Len(results) > 0

\* The paths of a sequence of records.
PathsOf(records) == [i \in 1..Len(records) |-> records[i].path]

\* The paths of the change set that match some include glob and no exclude
\* glob.
Retained ==
  { allChangedFiles[i].path : i \in
      { k \in 1..Len(allChangedFiles) :
          /\ \E g \in 1..Len(config.include) :
               isMatchGlob(allChangedFiles[k].path, config.include[g])
          /\ \A g \in 1..Len(config.exclude) :
               ~isMatchGlob(allChangedFiles[k].path, config.exclude[g]) } }

\* C14: the result list never holds two records of one path nor a record of
\* a path outside the filtered change set, and after a completed loop every
\* path of the filtered change set has exactly one record.
C14_OneOutcomePerFile ==
  /\ \A i, j \in 1..Len(results) : results[i].path = results[j].path => i = j
  /\ \A i \in 1..Len(results) : results[i].path \in Retained
  /\ LoopCompleted =>
       /\ { results[i].path : i \in 1..Len(results) } = Retained
       /\ Cardinality(Retained) = Len(results)

\* A completed loop over two files, one skipped and one synced.
C14_Witness ==
  /\ LoopCompleted
  /\ Len(results) = 2
  /\ Cardinality(Retained) = 2
  /\ results[1].status = "skipped"
  /\ results[2].status = "synced"

\* Position of a path in a sequence of records (0 when it is not there).
PositionIn(records, path) ==
  IF \E k \in 1..Len(records) : records[k].path = path
  THEN CHOOSE k \in 1..Len(records) : records[k].path = path
  ELSE 0

\* The records of kept are records of all, in the order they have in all.
InOrderOf(kept, all) ==
  /\ \A i \in 1..Len(kept) : PositionIn(all, kept[i].path) > 0
  /\ \A i, j \in 1..Len(kept) :
       i < j => PositionIn(all, kept[i].path) < PositionIn(all, kept[j].path)

\* C15: files are processed one at a time in the order of the filtered
\* change set, which is the diff order restricted to the retained paths:
\* every step reads, writes, deletes or prompts only for the first file
\* without an outcome (also while that file waits on the Interactive
\* Resolver), and the result list only grows at its end, by that file's
\* record.
C15_OneAtATime ==
  [][ LET k == Len(results) + 1
          current == IF k <= Len(filesToSync) THEN filesToSync[k].path ELSE ""
      IN  /\ InOrderOf(filesToSync', allChangedFiles')
          /\ results' # results =>
               /\ Len(results') = k
               /\ SubSeq(results', 1, Len(results)) = results
               /\ results'[k].path = current
               /\ current # ""
          /\ cur' # cur => (cur'.path = current /\ current # "")
          /\ Len(log') >= Len(log)
          /\ SubSeq(log', 1, Len(log)) = log
          /\ \A i \in (Len(log) + 1)..Len(log') : log'[i].path \in {"", current}
    ]_vars

\* Two files were processed; the first one waited on the Interactive
\* Resolver and the second one was written after it.
C15_Witness ==
  /\ Len(results) = 2
  /\ \E i, j \in 1..Len(log) :
       /\ i < j
       /\ log[i].op = "resolveConflict" /\ log[i].path = results[1].path
       /\ log[j].op = "write" /\ log[j].path = results[2].path


\* The records of a sequence, as a set.
RecordsOf(records) == { records[i] : i \in 1..Len(records) }

\* C16: filterFiles keeps a record of the change set exactly when its path
\* matches at least one include glob and no exclude glob, a path matching
\* both being left out; it returns nothing but records of the change set,
\* and with an empty include list it returns the empty list.
C16_FilterIncludeExclude ==
  pc = "returned filterFiles" =>
    /\ RecordsOf(filesToSync) \subseteq RecordsOf(allChangedFiles)
    /\ \A file \in RecordsOf(allChangedFiles) :
         file \in RecordsOf(filesToSync) <=> file.path \in Retained
    /\ \A file \in RecordsOf(allChangedFiles) :
         (/\ \E g \in 1..Len(config.include) : isMatchGlob(file.path, config.include[g])
          /\ \E g \in 1..Len(config.exclude) : isMatchGlob(file.path, config.exclude[g]))
         => file \notin RecordsOf(filesToSync)
    /\ config.include = <<>> => filesToSync = <<>>

\* filterFiles has returned one of two records: the other one matches an
\* include glob and an exclude glob.
C16_Witness ==
  /\ pc = "returned filterFiles"
  /\ Len(allChangedFiles) = 2
  /\ Len(filesToSync) = 1
  /\ \E file \in RecordsOf(allChangedFiles) \ RecordsOf(filesToSync) :
       /\ \E g \in 1..Len(config.include) : isMatchGlob(file.path, config.include[g])
       /\ \E g \in 1..Len(config.exclude) : isMatchGlob(file.path, config.exclude[g])

\* The strategy of the first declared pattern that matches, else the default.
RECURSIVE FirstDeclared(_, _, _)
FirstDeclared(path, declared, i) ==
  IF i > Len(declared) THEN config.mergeStrategy.default
  ELSE IF isMatchGlob(path, declared[i][1]) THEN declared[i][2]
       ELSE FirstDeclared(path, declared, i + 1)

\* C17: getMergeStrategy returns the strategy of the first pattern, in the
\* order the configuration declares them, that matches the path, and the
\* default strategy when none matches.
C17_FirstDeclaredPatternWins ==
  pc = "returned getMergeStrategy" =>
    cur.strategy = FirstDeclared(cur.path, config.mergeStrategy.patterns, 1)

\* C18: with a lastSyncedCommit, hasLocalModifications answers true exactly
\* when the working file differs from the blob of the path at
\* lastSyncedCommit (a missing file and a missing blob being equal only to
\* each other), so a working file with the bytes of that blob is not modified.
C18_ModifiedIffDiffers ==
  (cur.detected /\ config.lastSyncedCommit # NoCommit) =>
    (cur.hasLocalMods <=> cur.before # cur.baseBlob)

\* C19: without a lastSyncedCommit, hasLocalModifications answers true
\* exactly when the working file exists, and it reads the content of no
\* revision.
C19_FirstSyncIffExists ==
  (pc = "returned hasLocalModifications" /\ config.lastSyncedCommit = NoCommit) =>
    /\ cur.hasLocalMods <=> cur.before # NULL
    /\ EventsOf({"getFileContent"}) = {}
    /\ EventsOf({"getLocalFileContent"}) # {}

\* A first sync answered true for a working file that has the very bytes
\* the path has in the history.
C19_Witness ==
  /\ pc = "returned hasLocalModifications"
  /\ config.lastSyncedCommit = NoCommit
  /\ cur.before # NULL
  /\ cur.before = cur.baseBlob
  /\ cur.hasLocalMods

\* C20: a run whose change set is empty ends having written and deleted no
\* working file and having written no checkpoint, with the working tree as
\* it was at the start: no uncommitted change is left in the backup stash.
C20_EmptyChangeSetMutatesNothing ==
  (pc = "done" /\ allChangedFiles = <<>>) =>
    /\ EventsOf({"write", "delete", "updateLastSyncedCommit"}) = {}
    /\ results = <<>>
    /\ stash # "pushed"

\* C21: for a file whose outcome with dryRun = false needs no answer of the
\* Interactive Resolver, syncFile returns the same outcome status in a dry
\* run as it returns for the same file, strategy, local file and force
\* with dryRun = false.
C21_DryRunReportsTheOutcome ==
  pc = "returned syncFile" => results[1].status = results[2].status

\* C22: in a run with force set no question is put to the user: not the
\* backup confirmation, not the sync-start confirmation, not the conflict
\* menu of the Interactive Resolver.
C22_ForceNeverPrompts ==
  options.force =>
    /\ EventsOf({"confirmPrompt", "confirmSyncStart", "resolveConflict"}) = {}
    /\ pc \notin {"confirmStart", "resolving"}

\* C23: in a first sync (no lastSyncedCommit) a file that exists in the
\* working copy is overwritten with the upstream content only when force is
\* set, when its strategy is upstream or when the Interactive Resolver
\* answered upstream.
C23_FirstSyncProtectsLocal ==
  (/\ config.lastSyncedCommit = NoCommit
   /\ Returned
   /\ cur.before # NULL
   /\ cur.io = "write")
  => \/ options.force
     \/ cur.strategy = "upstream"
     \/ cur.action = "upstream"

\* The user declined the sync-start confirmation: main returned before the
\* loop with files to synchronise.
Declined == pc = "done" /\ Len(filesToSync) > 0 /\ results = <<>>

\* C24: when a backup was made (the stash took the uncommitted changes), a
\* run that ends because the user declined the sync-start confirmation, or
\* because a step threw, ends with the backup restored; after a throw the restore is the last thing the run does
\* before it exits with code 1.
C24_BackupRestored ==
  (backupId # NoBackup /\ stash # "none" /\ (Declined \/ pc = "exit1")) =>
    /\ stash = "popped"
    /\ log[Len(log)].op = "restoreBackup"

\* The answers resolveConflict re-asks on: a request for the diff, or a line
\* that is no choice of the menu.
ReAsked(answer) ==
  answer \in {"d", "diff"} \/ answer \notin {"", "u", "U", "upstream", "l", "L", "local",
                                              "s", "skip", "d", "diff"}

\* While resolveConflict is pending nothing has been done to the file since
\* the escalation.
PendingUntouched ==
  pc = "resolveConflict" =>
    /\ cur.local = cur.before
    /\ cur.action = "none"
    /\ EventsOf({"write", "delete"}) \cap EventsOn(cur.path) = {}
    /\ log[Len(log)] = Event("resolveConflict", cur.path)

\* One answer at the menu: a re-asked answer leaves the call pending with no
\* outcome recorded, and the call returns only on another answer, with one
\* of the four actions.
MenuTurn ==
  pc = "resolveConflict" =>
    /\ ReAsked(cur'.answer) =>
         /\ pc' = "resolveConflict"
         /\ cur'.action = "none"
         /\ results' = results
         /\ log' = log
    /\ pc' # "resolveConflict" =>
         /\ ~ReAsked(cur'.answer)
         /\ cur'.action \in {"upstream", "local", "skip", "manual"}

\* C25: resolveConflict returns only on a terminal choice: a request for the
\* diff or an unrecognized line asks again without returning, the action
\* returned is one of upstream, local, skip and manual, syncFile neither
\* writes nor deletes the escalated file while the call is pending, and with
\* a user who enters a terminal choice at some turn the call returns.
C25_ReturnsOnTerminalChoice ==
  /\ []PendingUntouched
  /\ [][MenuTurn]_vars
  /\ (pc = "resolveConflict") ~> (pc # "resolveConflict")

\* resolveConflict returned skip after the question had been asked again
\* twice.
C25_Witness ==
  /\ pc = "resolved syncFile"
  /\ cur.prompts = 1
  /\ cur.asks = 2
  /\ cur.answer \in {"s", "skip"}
  /\ cur.action = "skip"
  /\ cur.result.status = "skipped"

\* syncFile works, outside a dry run, on a file that is not deleted, whose
\* upstream content it could read and that the working copy does not have.
C26_Case ==
  /\ Started
  /\ ~options.dryRun
  /\ cur.status \in {"added", "modified"}
  /\ cur.upstreamContent # NULL
  /\ cur.before = NULL

\* C26: for such a file syncFile writes the upstream content and returns
\* synced, whatever the status, the strategy, force and lastSyncedCommit,
\* without a call of the Interactive Resolver or of the modification
\* detector.
C26_MissingLocalIsWritten ==
  C26_Case =>
    /\ cur.io = "write"
    /\ cur.prompts = 0
    /\ cur.state # "resolving"
    /\ ~cur.detected
    /\ Returned =>
         /\ cur.result.status = "synced"
         /\ cur.local = cur.upstreamContent
         /\ EventsOf({"write"}) \cap EventsOn(cur.path) # {}

\* A modified file under the local strategy, missing from the working copy
\* in a run with a lastSyncedCommit and without force, has been written.
C26_Witness ==
  /\ C26_Case
  /\ Returned
  /\ cur.status = "modified"
  /\ cur.strategy = "local"
  /\ ~options.force
  /\ config.lastSyncedCommit # NoCommit
  /\ cur.local = cur.upstreamContent
  /\ cur.result.status = "synced"

\* C27: a run outside a dry run that made a backup and returns normally
\* with no file synced ends with the backed-up changes back in the working
\* tree.
C27_BackupBackWhenNothingSynced ==
  (/\ pc = "done"
   /\ ~options.dryRun
   /\ backupId # NoBackup
   /\ stash # "none"
   /\ countStatus(results, "synced") = 0)
  => stash = "popped"

====
